---- MODULE Spec2Model ----
\* Tic Tac Toe rules engine (src/src/lib.rs): the packed Bitboard (u32), the
\* TicTacToe game that wraps it, and the CellIndex move parser.
\*
\* Six specifications share the variables below:
\*   Spec         a game: TicTacToe::new() followed by play_move calls
\*   FairSpec     a game played by a caller that keeps taking legal moves
\*   BoardSpec    the Bitboard primitives: Bitboard::new() followed by mark_cell calls
\*   VictorySpec  Bitboard::victory on every assignment of the nine cells
\*   DisplaySpec  TicTacToe::print_to on every assignment of the nine cells
\*   ParseSpec    CellIndex::from_str on short byte strings, From<u8> on every u8
EXTENDS Integers, Sequences, FiniteSets

VARIABLES
    board,      \* TicTacToe.0.0 : the u32 of the game's Bitboard
    last,       \* the last call made on the game and how it ended
    applied,    \* history: number of play_move calls that returned normally
    bb,         \* a free-standing Bitboard.0 (BoardSpec, VictorySpec)
    marks,      \* number of mark_cell calls made on bb
    lastMark,   \* the last mark_cell applied to bb, with what field() read before it
    won,        \* what victory() returned for bb, once asked (VictorySpec)
    out,        \* what print_to wrote to its writer for bb (DisplaySpec)
    source,     \* the &str handed to from_str, as a sequence of bytes
    parsed,     \* the Result from_str returned
    made        \* how CellIndex::from(u8) ended, and the CellIndex it returned

vars == <<board, last, applied, bb, marks, lastMark, won, out, source, parsed, made>>

\* ---------------------------------------------------------------- bounds
\* Number of mark_cell calls BoardSpec makes on one board.
MaxMarks == 3
\* Longest input string ParseSpec hands to from_str.
MaxLen == 2

\* ------------------------------------------------------- u32 bit operations
\* Every value of the board lies below 2^27 (highest bit used: 16 + 2*4 + 2),
\* so no operation below is truncated by the 32-bit width.
\* The operations work a byte at a time through tables built once from the
\* bit-by-bit definitions.
RECURSIVE AndBits(_, _)
AndBits(a, b) ==
    IF a = 0 \/ b = 0 THEN 0
    ELSE (a % 2) * (b % 2) + 2 * AndBits(a \div 2, b \div 2)

RECURSIVE OrBits(_, _)
OrBits(a, b) ==
    IF a = 0 THEN b
    ELSE IF b = 0 THEN a
    ELSE (IF a % 2 = 1 \/ b % 2 = 1 THEN 1 ELSE 0) + 2 * OrBits(a \div 2, b \div 2)

RECURSIVE OneBits(_)
OneBits(a) == IF a = 0 THEN 0 ELSE (a % 2) + OneBits(a \div 2)

Byte == 0 .. 255
AndTable == [x \in Byte |-> [y \in Byte |-> AndBits(x, y)]]
OrTable == [x \in Byte |-> [y \in Byte |-> OrBits(x, y)]]
OnesTable == [x \in Byte |-> OneBits(x)]

\* a & b
RECURSIVE BitAnd(_, _)
BitAnd(a, b) ==
    IF a = 0 \/ b = 0 THEN 0
    ELSE AndTable[a % 256][b % 256] + 256 * BitAnd(a \div 256, b \div 256)

\* a | b
RECURSIVE BitOr(_, _)
BitOr(a, b) ==
    IF a = 0 THEN b
    ELSE IF b = 0 THEN a
    ELSE OrTable[a % 256][b % 256] + 256 * BitOr(a \div 256, b \div 256)

\* a & !m
BitAndNot(a, m) == a - BitAnd(a, m)

\* a << k
Shl(a, k) == a * (2 ^ k)

\* a >> k
Shr(a, k) == a \div (2 ^ k)

\* a.count_ones()
RECURSIVE count_ones(_)
count_ones(a) == IF a = 0 THEN 0 ELSE OnesTable[a % 256] + count_ones(a \div 256)

\* ---------------------------------------------------------------- CellIndex
\* CellIndex values: fields are enumerated 0..8, row-major.
CellIndexes == 0 .. 8

row(index) == index \div 3

column(index) == index % 3

\* ---------------------------------------------------------------- Cell
Cell == {"Empty", "PlayerOne", "PlayerTwo"}

\* ---------------------------------------------------------------- Bitboard
\* Bitboard::new
NewBitboard == 0

\* 1 << (index.row() * (3 + 1) + index.column())
bitmask_cell(index) == Shl(1, row(index) * (3 + 1) + column(index))

\* Mutant of mark_cell: the bit is computed with rows of width 3, without
\* the padding column.
mark_cell_width_three(b, index, new_state) ==
    LET bit == Shl(1, row(index) * 3 + column(index))
    IN  CASE new_state = "PlayerOne" -> BitOr(b, bit)
          [] new_state = "PlayerTwo" -> BitOr(b, Shl(bit, 16))
          [] new_state = "Empty" -> BitAndNot(b, BitOr(bit, Shl(bit, 16)))

\* Mutant of mark_cell: Empty clears player one's bit only.
mark_cell_clear_low(b, index, new_state) ==
    CASE new_state = "PlayerOne" -> BitOr(b, bitmask_cell(index))
      [] new_state = "PlayerTwo" -> BitOr(b, Shl(bitmask_cell(index), 16))
      [] new_state = "Empty" -> BitAndNot(b, bitmask_cell(index))

\* Bitboard::mark_cell: the new value of self.0
mark_cell(b, index, new_state) ==
    CASE new_state = "PlayerOne" -> BitOr(b, bitmask_cell(index))
      [] new_state = "PlayerTwo" -> BitOr(b, Shl(bitmask_cell(index), 16))
      [] new_state = "Empty" ->
            BitAndNot(b, BitOr(bitmask_cell(index), Shl(bitmask_cell(index), 16)))

\* Bitboard::field
field(b, index) ==
    IF BitAnd(bitmask_cell(index), b) # 0 THEN "PlayerOne"
    ELSE IF BitAnd(Shl(bitmask_cell(index), 16), b) # 0 THEN "PlayerTwo"
    ELSE "Empty"

\* self.0 & self.0 >> step & self.0 >> (2 * step)
ThreeInLine(b, step) == BitAnd(BitAnd(b, Shr(b, step)), Shr(b, 2 * step))

\* Mutant of victory: the second diagonal (step row - col) is left out.
victory_three_steps(b) ==
    LET col == 1
        rw  == 3 + 1
    IN  0 # BitOr(BitOr(ThreeInLine(b, col), ThreeInLine(b, rw)),
                  ThreeInLine(b, col + rw))

\* Bitboard::victory
victory(b) ==
    LET col == 1
        rw  == 3 + 1
    IN  0 # BitOr(BitOr(BitOr(ThreeInLine(b, col), ThreeInLine(b, rw)),
                        ThreeInLine(b, col + rw)),
                  ThreeInLine(b, rw - col))

\* Mutant of stones: counts the low 16 bits only, player one's stones.
stones_low_half(b) == count_ones(b % 65536) % 256

\* Bitboard::stones
stones(b) == count_ones(b) % 256

\* ---------------------------------------------------------------- TicTacToe
TicTacToeState ==
    {"VictoryPlayerOne", "VictoryPlayerTwo", "Draw", "TurnPlayerOne", "TurnPlayerTwo"}

\* Mutant of state: tests for the full board before it tests for a line.
state_draw_first(b) ==
    LET n      == stones(b)
        player == n % 2
    IN  IF n = 9 THEN "Draw"
        ELSE IF victory(b)
        THEN (IF player = 0 THEN "VictoryPlayerOne" ELSE "VictoryPlayerTwo")
        ELSE IF player = 0 THEN "TurnPlayerOne" ELSE "TurnPlayerTwo"

\* Mutant of state: an odd stone count without a line is always player
\* two's turn, the full board included.
state_no_draw(b) ==
    LET n      == stones(b)
        player == n % 2
    IN  IF victory(b)
        THEN (IF player = 0 THEN "VictoryPlayerOne" ELSE "VictoryPlayerTwo")
        ELSE IF player = 0 THEN "TurnPlayerOne" ELSE "TurnPlayerTwo"

\* TicTacToe::state
state(b) ==
    LET n      == stones(b)
        player == n % 2
    IN  IF victory(b)
        THEN (IF player = 0 THEN "VictoryPlayerOne" ELSE "VictoryPlayerTwo")
        ELSE IF player = 0 THEN "TurnPlayerOne"
        ELSE IF n = 9 THEN "Draw" ELSE "TurnPlayerTwo"

\* <Cell as fmt::Display>::fmt: the one character written for a cell.
Display(cell) ==
    CASE cell = "Empty" -> " "
      [] cell = "PlayerOne" -> "X"
      [] cell = "PlayerTwo" -> "O"

\* The pieces of print_to's format string, one character per element.
Rule == <<"-", "-", "-", "-", "-", "-", "-">>
Separator == <<"|", "-", "-", "-", "-", "-", "|">>
Newline == <<"\n">>
GridRow(a, b, c) == <<"|", a, "|", b, "|", c, "|">>

\* Mutant of print_to: the cells are written column by column.
print_to_transposed(b) ==
    LET f(i) == Display(field(b, i))
    IN  Rule \o Newline \o GridRow(f(0), f(3), f(6)) \o Newline
        \o Separator \o Newline \o GridRow(f(1), f(4), f(7)) \o Newline
        \o Separator \o Newline \o GridRow(f(2), f(5), f(8)) \o Newline
        \o Rule

\* TicTacToe::print_to: the characters written to out.
print_to(b) ==
    LET f(i) == Display(field(b, i))
    IN  Rule \o Newline \o GridRow(f(0), f(1), f(2)) \o Newline
        \o Separator \o Newline \o GridRow(f(3), f(4), f(5)) \o Newline
        \o Separator \o Newline \o GridRow(f(6), f(7), f(8)) \o Newline
        \o Rule

\* (0..9).map(CellIndex).filter(|i| field(i) == Empty), as the sequence it yields
RECURSIVE FilterEmpty(_, _)
FilterEmpty(b, i) ==
    IF i >= 9 THEN <<>>
    ELSE (IF field(b, i) = "Empty" THEN <<i>> ELSE <<>>) \o FilterEmpty(b, i + 1)

\* Mutant of legal_moves: the range starts at 1.
legal_moves_from_one(b) == FilterEmpty(b, 1)

\* Mutant of legal_moves: the filter on Empty cells is missing.
legal_moves_unfiltered(b) == <<0, 1, 2, 3, 4, 5, 6, 7, 8>>

\* TicTacToe::legal_moves
legal_moves(b) == FilterEmpty(b, 0)

\* Mutant of play_move: the two players' stones are exchanged.
play_move_exchanged(b, mov) ==
    IF field(b, mov) # "Empty" THEN [result |-> "assert_failed", board |-> b]
    ELSE LET s == state(b)
         IN  IF s = "TurnPlayerOne"
             THEN [result |-> "ok", board |-> mark_cell(b, mov, "PlayerTwo")]
             ELSE IF s = "TurnPlayerTwo"
             THEN [result |-> "ok", board |-> mark_cell(b, mov, "PlayerOne")]
             ELSE [result |-> "finished", board |-> b]

\* Mutant of play_move: without the assertion on the cell being Empty.
play_move_no_assert(b, mov) ==
    LET s == state(b)
    IN  IF s = "TurnPlayerOne"
        THEN [result |-> "ok", board |-> mark_cell(b, mov, "PlayerOne")]
        ELSE IF s = "TurnPlayerTwo"
        THEN [result |-> "ok", board |-> mark_cell(b, mov, "PlayerTwo")]
        ELSE [result |-> "finished", board |-> b]

\* Mutant of play_move: every state but TurnPlayerOne places player two's stone.
play_move_no_finish(b, mov) ==
    IF field(b, mov) # "Empty" THEN [result |-> "assert_failed", board |-> b]
    ELSE IF state(b) = "TurnPlayerOne"
         THEN [result |-> "ok", board |-> mark_cell(b, mov, "PlayerOne")]
         ELSE [result |-> "ok", board |-> mark_cell(b, mov, "PlayerTwo")]

\* TicTacToe::play_move: how the call ends and the board it leaves.
\*   "assert_failed"  the assert! on the cell being Empty panicked
\*   "finished"       panic!("Tic Tac Toe game is already finished.")
\*   "ok"             returned normally
play_move(b, mov) ==
    IF field(b, mov) # "Empty" THEN [result |-> "assert_failed", board |-> b]
    ELSE LET s == state(b)
         IN  IF s = "TurnPlayerOne"
             THEN [result |-> "ok", board |-> mark_cell(b, mov, "PlayerOne")]
             ELSE IF s = "TurnPlayerTwo"
             THEN [result |-> "ok", board |-> mark_cell(b, mov, "PlayerTwo")]
             ELSE [result |-> "finished", board |-> b]

\* ---------------------------------------------------------------- FromStr
\* <CellIndex as FromStr>::from_str on the bytes of source:
\* source.as_bytes().first() matched against b'0'..=b'8'.
from_str(src) ==
    IF Len(src) = 0 THEN [ok |-> FALSE, index |-> 0]
    ELSE IF src[1] >= 48 /\ src[1] <= 56 THEN [ok |-> TRUE, index |-> src[1] - 48]
    ELSE [ok |-> FALSE, index |-> 0]

\* Mutant of from_u8: 9 is accepted ("Bottom right is nine").
from_u8_through_nine(src) ==
    IF src >= 0 /\ src <= 9 THEN [ok |-> TRUE, index |-> src]
    ELSE [ok |-> FALSE, index |-> 0]

\* <CellIndex as From<u8>>::from: ok is FALSE when it panics.
from_u8(src) ==
    IF src >= 0 /\ src <= 8 THEN [ok |-> TRUE, index |-> src]
    ELSE [ok |-> FALSE, index |-> 0]

\* ------------------------------------------------------------ idle values
NoCall == [op |-> "new", mov |-> 0, result |-> "ok", before |-> 0]
NoMark == [op |-> "new", index |-> 0, cell |-> "Empty", read |-> "Empty"]
NoVerdict == [asked |-> FALSE, value |-> FALSE]
NoOutput == [written |-> FALSE, text |-> <<>>]
NoParse == [called |-> FALSE, ok |-> FALSE, index |-> 0]
NoIndex == [called |-> FALSE, given |-> 0, ok |-> FALSE, index |-> 0]

GameIdle == board = NewBitboard /\ last = NoCall /\ applied = 0
BoardIdle ==
    bb = NewBitboard /\ marks = 0 /\ lastMark = NoMark /\ won = NoVerdict /\ out = NoOutput
ParseIdle == source = <<>> /\ parsed = NoParse /\ made = NoIndex

\* ---------------------------------------------------------------- Spec
\* TicTacToe::new()
Init == GameIdle /\ BoardIdle /\ ParseIdle

\* A caller invokes play_move(&mov). A panic unwinds before mark_cell is
\* reached, so the board the caller still holds is the one play_move returns here.
PlayMove(mov) ==
    \E r \in {play_move(board, mov)} :
        /\ board' = r.board
        /\ last' = [op |-> "play_move", mov |-> mov, result |-> r.result, before |-> board]
        /\ applied' = IF r.result = "ok" THEN applied + 1 ELSE applied
        /\ UNCHANGED <<bb, marks, lastMark, won, out, source, parsed, made>>

Next == \E mov \in CellIndexes : PlayMove(mov)

Spec == Init /\ [][Next]_vars

\* ---------------------------------------------------------------- FairSpec
\* A caller that keeps playing legal moves: while state() is one of the two
\* turns it takes a position legal_moves() yields and calls play_move on it.
\* Every call returns or panics at once, so a move that stays possible is made.
PlayLegalMove ==
    /\ state(board) \in {"TurnPlayerOne", "TurnPlayerTwo"}
    /\ \E moves \in {legal_moves(board)} :
            \E i \in 1 .. Len(moves) : PlayMove(moves[i])

FairNext == PlayLegalMove

FairSpec == Init /\ [][FairNext]_vars /\ WF_vars(FairNext)

\* ---------------------------------------------------------------- BoardSpec
\* Bitboard::new() followed by up to MaxMarks calls of mark_cell, any cell,
\* any new state: mark_cell performs no checks.
MarkCell(index, new_state) ==
    /\ marks < MaxMarks
    /\ bb' = mark_cell(bb, index, new_state)
    /\ marks' = marks + 1
    /\ lastMark' = [op |-> "mark_cell", index |-> index, cell |-> new_state,
                    read |-> field(bb, index)]
    /\ UNCHANGED <<board, last, applied, won, out, source, parsed, made>>

BoardNext == \E index \in CellIndexes, new_state \in Cell : MarkCell(index, new_state)

BoardSpec == Init /\ [][BoardNext]_vars

\* ---------------------------------------------------------------- VictorySpec
\* The board built by mark_cell(i, f[i]) for i = 0..8 on Bitboard::new().
RECURSIVE BuildBoard(_, _, _)
BuildBoard(b, f, i) ==
    IF i >= 9 THEN b ELSE BuildBoard(mark_cell(b, i, f[i]), f, i + 1)

\* Every assignment of Empty, PlayerOne or PlayerTwo to the nine cells.
VictoryInit ==
    /\ GameIdle /\ ParseIdle
    /\ bb \in {BuildBoard(NewBitboard, f, 0) : f \in [CellIndexes -> Cell]}
    /\ marks = 0 /\ lastMark = NoMark /\ won = NoVerdict /\ out = NoOutput

AskVictory ==
    /\ ~won.asked
    /\ won' = [asked |-> TRUE, value |-> victory(bb)]
    /\ UNCHANGED <<board, last, applied, bb, marks, lastMark, out, source, parsed, made>>

VictoryNext == AskVictory

VictorySpec == VictoryInit /\ [][VictoryNext]_vars

\* ---------------------------------------------------------------- DisplaySpec
\* print_to on every assignment of Empty, PlayerOne or PlayerTwo to the cells.
PrintTo ==
    /\ ~out.written
    /\ out' = [written |-> TRUE, text |-> print_to(bb)]
    /\ UNCHANGED <<board, last, applied, bb, marks, lastMark, won, source, parsed, made>>

DisplayNext == PrintTo

DisplaySpec == VictoryInit /\ [][DisplayNext]_vars

\* ---------------------------------------------------------------- ParseSpec
\* The bytes input strings are made of: '/', '0'..'9', ':', ' ', 'a', 'x'.
InputBytes == {32, 47, 48, 49, 50, 51, 52, 53, 54, 55, 56, 57, 58, 97, 120}

RECURSIVE Strings(_)
Strings(n) ==
    IF n = 0 THEN {<<>>}
    ELSE Strings(n - 1) \cup
         {Append(t, c) : t \in {u \in Strings(n - 1) : Len(u) = n - 1}, c \in InputBytes}

ParseInit ==
    /\ GameIdle /\ BoardIdle
    /\ source \in Strings(MaxLen)
    /\ parsed = NoParse
    /\ made = NoIndex

Parse ==
    /\ ~parsed.called
    /\ ~made.called
    /\ \E r \in {from_str(source)} :
            parsed' = [called |-> TRUE, ok |-> r.ok, index |-> r.index]
    /\ UNCHANGED <<board, last, applied, bb, marks, lastMark, won, out, source, made>>

\* The values of a u8.
U8 == 0 .. 255

\* CellIndex::from(i) on any u8. A run makes one conversion: from_str on the
\* string drawn, or, when none was drawn, From<u8> on a byte.
From(i) ==
    /\ ~made.called
    /\ source = <<>>
    /\ ~parsed.called
    /\ \E r \in {from_u8(i)} :
            made' = [called |-> TRUE, given |-> i, ok |-> r.ok, index |-> r.index]
    /\ UNCHANGED <<board, last, applied, bb, marks, lastMark, won, out, source, parsed>>

ParseNext == Parse \/ \E i \in U8 : From(i)

ParseSpec == ParseInit /\ [][ParseNext]_vars

\* ------------------------------------------------- reading the representation
\* The documented layout of Bitboard: player one's stone on cell p is bit
\* 4 * (p / 3) + p % 3, player two's is that bit plus 16.
BitAt(b, k) == (b \div (2 ^ k)) % 2

PlayerOneHolds(b, p) == BitAt(b, 4 * (p \div 3) + (p % 3)) = 1

PlayerTwoHolds(b, p) == BitAt(b, 16 + 4 * (p \div 3) + (p % 3)) = 1

Holds(b, pl, p) == IF pl = "PlayerOne" THEN PlayerOneHolds(b, p) ELSE PlayerTwoHolds(b, p)

IsEmpty(b, p) == ~PlayerOneHolds(b, p) /\ ~PlayerTwoHolds(b, p)

Players == {"PlayerOne", "PlayerTwo"}

\* The eight lines of the 3x3 grid: three rows, three columns, two diagonals.
Lines ==
    {{0, 1, 2}, {3, 4, 5}, {6, 7, 8},
     {0, 3, 6}, {1, 4, 7}, {2, 5, 8},
     {0, 4, 8}, {2, 4, 6}}

HasLine(b, pl) == \E L \in Lines : \A p \in L : Holds(b, pl, p)

VictoryOf(pl) == IF pl = "PlayerOne" THEN "VictoryPlayerOne" ELSE "VictoryPlayerTwo"

Terminal == {"VictoryPlayerOne", "VictoryPlayerTwo", "Draw"}

Elements(s) == {s[i] : i \in 1 .. Len(s)}

\* The player who made the last successful move of the game on board b:
\* player one moves first, so it is player one after an odd number of moves.
LastMover == IF applied % 2 = 1 THEN "PlayerOne" ELSE "PlayerTwo"

\* The board after play_move on each of movs in turn, starting from board b.
RECURSIVE PlayAll(_, _)
PlayAll(b, movs) ==
    IF movs = <<>> THEN b ELSE PlayAll(play_move(b, Head(movs)).board, Tail(movs))

\* ------------------------------------------------------------------ claims

\* C1: whenever a line is complete in a game played by successful play_move
\* calls, state() names as victor the player who made the last move, who is
\* the player whose stones form the line: VictoryPlayerOne when the stone
\* count is odd, VictoryPlayerTwo when it is even; after 4,6,2,8,5,7 the
\* state is VictoryPlayerTwo.
VictorIsLastMover ==
    /\ \A pl \in Players : HasLine(board, pl) =>
            /\ pl = LastMover
            /\ state(board) = VictoryOf(pl)
    /\ victory(board) =>
            state(board) = IF stones(board) % 2 = 1 THEN "VictoryPlayerOne"
                           ELSE "VictoryPlayerTwo"
    /\ board = PlayAll(NewBitboard, <<4, 6, 2, 8, 5, 7>>) =>
            state(board) = "VictoryPlayerTwo"

\* C2: a terminal state is absorbing: there play_move panics for every
\* position and leaves the board as it is, so every step taken from a
\* terminal state ends in the same terminal state with a panic.
TerminalAbsorbing ==
    [][state(board) \in Terminal =>
            /\ \A p \in CellIndexes :
                    /\ play_move(board, p).result # "ok"
                    /\ play_move(board, p).board = board
            /\ board' = board
            /\ last'.result # "ok"
            /\ state(board') = state(board)]_vars

\* C2 witness: play_move was called on a won game, on an Empty cell, and
\* panicked with "already finished".
FinishedGameRejected ==
    /\ last.op = "play_move"
    /\ last.result = "finished"
    /\ state(last.before) \in {"VictoryPlayerOne", "VictoryPlayerTwo"}
    /\ IsEmpty(last.before, last.mov)
    /\ board = last.before

\* C3: play_move on a cell that is not Empty fails its assertion and leaves
\* the board unchanged: the stone there is not overwritten and none is added.
OccupiedCellRejected ==
    /\ \A p \in CellIndexes : ~IsEmpty(board, p) =>
            /\ play_move(board, p).result = "assert_failed"
            /\ play_move(board, p).board = board
    /\ (last.op = "play_move" /\ ~IsEmpty(last.before, last.mov)) =>
            /\ last.result = "assert_failed"
            /\ board = last.before
            /\ applied = stones(last.before)

\* C3 witness: player two called play_move on a cell player one holds while
\* the game was still running.
OccupiedCellTried ==
    /\ last.op = "play_move"
    /\ last.result = "assert_failed"
    /\ PlayerOneHolds(last.before, last.mov)
    /\ state(last.before) = "TurnPlayerTwo"

\* C4 as stated: TurnPlayerOne iff the count is even and no line is complete,
\* TurnPlayerTwo iff the count is odd and no line is complete.
TurnIffParity ==
    LET noLine == \A pl \in Players : ~HasLine(board, pl)
    IN  /\ state(board) = "TurnPlayerOne" <=> (stones(board) % 2 = 0 /\ noLine)
        /\ state(board) = "TurnPlayerTwo" <=> (stones(board) % 2 = 1 /\ noLine)

\* C4 amended: TurnPlayerOne iff the count is even and no line is complete,
\* TurnPlayerTwo iff the count is odd, below 9, and no line is complete.
TurnIffParityBelowNine ==
    LET noLine == \A pl \in Players : ~HasLine(board, pl)
    IN  /\ state(board) = "TurnPlayerOne" <=> (stones(board) % 2 = 0 /\ noLine)
        /\ state(board) = "TurnPlayerTwo" <=>
                (stones(board) % 2 = 1 /\ stones(board) < 9 /\ noLine)

\* C4 witness: a board of seven stones without a line, player two to move.
SevenStonesPlayerTwoToMove ==
    /\ applied = 7
    /\ \A pl \in Players : ~HasLine(board, pl)
    /\ state(board) = "TurnPlayerTwo"

\* C5: state() is Draw iff the board holds nine stones and no line is
\* complete; a full board whose ninth stone completed a line is a Victory.
DrawIffFullNoLine ==
    LET noLine == \A pl \in Players : ~HasLine(board, pl)
        full   == \A p \in CellIndexes : ~IsEmpty(board, p)
    IN  /\ state(board) = "Draw" <=> (full /\ noLine)
        /\ (full /\ ~noLine) => state(board) \in {"VictoryPlayerOne", "VictoryPlayerTwo"}

\* C5 witness: the ninth stone completed a line.
NinthStoneWins ==
    /\ applied = 9
    /\ last.result = "ok"
    /\ HasLine(board, "PlayerOne")
    /\ ~HasLine(last.before, "PlayerOne")

\* C6: legal_moves() yields exactly the Empty positions, each once, in
\* strictly ascending order, hence 9 - stones() of them; after a successful
\* play_move the position just played is no longer among them.
LegalMovesExact ==
    LET s == legal_moves(board)
    IN  /\ \A i \in 1 .. Len(s) - 1 : s[i] < s[i + 1]
        /\ Elements(s) = {p \in CellIndexes : IsEmpty(board, p)}
        /\ Len(s) = 9 - stones(board)
        /\ (last.op = "play_move" /\ last.result = "ok") =>
                /\ last.mov \in Elements(legal_moves(last.before))
                /\ Elements(s) = Elements(legal_moves(last.before)) \ {last.mov}

\* C6 witness: after a move on cell 0 in mid-game, four moves stay legal.
FourLegalMovesLeft ==
    /\ last.op = "play_move"
    /\ last.result = "ok"
    /\ last.mov = 0
    /\ Len(legal_moves(board)) = 4

\* C7: after N successful play_move calls stones() is N: a successful call
\* adds exactly one stone, a rejected call adds none.
StonesCountMoves ==
    /\ stones(board) = applied
    /\ last.op = "play_move" =>
            stones(board) = stones(last.before) + (IF last.result = "ok" THEN 1 ELSE 0)

\* C7 witness: five moves were applied and a sixth call was rejected.
FiveAppliedOneRejected ==
    /\ applied = 5
    /\ last.op = "play_move"
    /\ last.result # "ok"

\* C8: on every board whose nine cells are each Empty, PlayerOne or
\* PlayerTwo, victory() is true iff one player holds all three cells of one
\* of the eight lines; three bits that span rows, wrap over a row boundary or
\* belong to different players never count.
VictoryIffLine ==
    won.asked => (won.value <=> \E pl \in Players : HasLine(bb, pl))

\* C8 witness: player two holds 0, 4 and 8 and nothing else is on the board;
\* victory() answered true.
MainDiagonalWins ==
    /\ won.asked /\ won.value
    /\ \A p \in CellIndexes : PlayerTwoHolds(bb, p) <=> p \in {0, 4, 8}
    /\ \A p \in CellIndexes : ~PlayerOneHolds(bb, p)

\* C9 as stated: field(p) right after mark_cell(p, v) returns v, whatever the
\* cell held before.
RoundTrip ==
    lastMark.op = "mark_cell" => field(bb, lastMark.index) = lastMark.cell

\* C9 amended: field(p) right after mark_cell(p, v) returns v, except that
\* after mark_cell(p, PlayerTwo) on a cell that read PlayerOne it still
\* returns PlayerOne.
RoundTripUnlessOverPlayerOne ==
    lastMark.op = "mark_cell" =>
        field(bb, lastMark.index) =
            IF lastMark.cell = "PlayerTwo" /\ lastMark.read = "PlayerOne"
            THEN "PlayerOne" ELSE lastMark.cell

\* C9 witness: player one was marked on a cell that read PlayerTwo, and the
\* cell now reads PlayerOne while player two's bit is still set.
PlayerOneOverPlayerTwo ==
    /\ lastMark.op = "mark_cell"
    /\ lastMark.cell = "PlayerOne"
    /\ lastMark.read = "PlayerTwo"
    /\ field(bb, lastMark.index) = "PlayerOne"
    /\ PlayerTwoHolds(bb, lastMark.index)

\* C10: from_str is Ok(CellIndex(d)) exactly for the one-character inputs
\* "0".."8", with d the digit, and an error for every other input, those of
\* more than one character included.
ParseOnlySingleDigit ==
    parsed.called =>
        /\ parsed.ok <=> (Len(source) = 1 /\ source[1] \in 48 .. 56)
        /\ parsed.ok => parsed.index = source[1] - 48

\* The expected text of the empty board (test::empty_board), one character
\* per element: seven lines of seven characters, newlines between them.
EmptyGrid ==
    <<"-", "-", "-", "-", "-", "-", "-", "\n",
      "|", " ", "|", " ", "|", " ", "|", "\n",
      "|", "-", "-", "-", "-", "-", "|", "\n",
      "|", " ", "|", " ", "|", " ", "|", "\n",
      "|", "-", "-", "-", "-", "-", "|", "\n",
      "|", " ", "|", " ", "|", " ", "|", "\n",
      "-", "-", "-", "-", "-", "-", "-">>

\* Where the slot of cell k lies in the text: line 2, 4 or 6, column 2, 4 or 6.
SlotAt(k) == 8 * (1 + 2 * (k \div 3)) + 2 * (k % 3) + 2

\* C11: print_to writes exactly the seven-line grid, without a trailing
\* newline, whose k-th slot in row-major order shows cell k: " " for Empty,
\* "X" for player one, "O" for player two; the empty board prints nine spaces.
GridShowsCells ==
    out.written =>
        /\ Len(out.text) = Len(EmptyGrid)
        /\ \A k \in CellIndexes :
                out.text[SlotAt(k)] = IF PlayerOneHolds(bb, k) THEN "X"
                                      ELSE IF PlayerTwoHolds(bb, k) THEN "O"
                                      ELSE " "
        /\ \A j \in 1 .. Len(EmptyGrid) :
                j \notin {SlotAt(k) : k \in CellIndexes} => out.text[j] = EmptyGrid[j]
        /\ bb = NewBitboard => out.text = EmptyGrid

\* C11 witness: the board of test::board_with_two_stones (player one on 4,
\* player two on 6) was printed, with X in the middle and O bottom left.
TwoStonesPrinted ==
    /\ out.written
    /\ bb = mark_cell(mark_cell(NewBitboard, 4, "PlayerOne"), 6, "PlayerTwo")
    /\ out.text[SlotAt(4)] = "X"
    /\ out.text[SlotAt(6)] = "O"
    /\ out.text[SlotAt(0)] = " "

\* The number of cells on which player pl's bit is set.
StonesOf(b, pl) == Cardinality({p \in CellIndexes : Holds(b, pl, p)})

Applied == last.op = "play_move" /\ last.result = "ok"

\* C12: in every state reached through play_move calls, successful or
\* rejected, no cell has both player one's and player two's bit set.
NoCellHeldTwice ==
    \A p \in CellIndexes : ~(PlayerOneHolds(board, p) /\ PlayerTwoHolds(board, p))

\* C12 witness: the board is full and a play_move on a cell of player two
\* was rejected.
FullBoardMoveRejected ==
    /\ applied = 9
    /\ last.result = "assert_failed"
    /\ PlayerTwoHolds(board, last.mov)

\* C13: a successful play_move(p) changes exactly cell p: it then holds the
\* stone of the player whose turn it was before the call, and every other
\* cell reads as before.
OneCellChanged ==
    Applied =>
        /\ field(last.before, last.mov) = "Empty"
        /\ state(last.before) \in {"TurnPlayerOne", "TurnPlayerTwo"}
        /\ field(board, last.mov) =
                IF state(last.before) = "TurnPlayerOne" THEN "PlayerOne" ELSE "PlayerTwo"
        /\ \A q \in CellIndexes \ {last.mov} :
                /\ field(board, q) = field(last.before, q)
                /\ \A pl \in Players : Holds(board, pl, q) <=> Holds(last.before, pl, q)

\* C13 witness: player two placed the fourth stone of the game on cell 5.
PlayerTwoPlacedFourth ==
    /\ Applied
    /\ applied = 4
    /\ last.mov = 5
    /\ state(last.before) = "TurnPlayerTwo"
    /\ PlayerTwoHolds(board, 5)

\* C14: the game starts in TurnPlayerOne on the empty board, and a
\* successful play_move made in TurnPlayerOne leaves TurnPlayerTwo or a
\* terminal state, one made in TurnPlayerTwo leaves TurnPlayerOne or a
\* terminal state.
TurnsAlternate ==
    /\ last.op = "new" => (board = NewBitboard /\ state(board) = "TurnPlayerOne")
    /\ Applied =>
        /\ state(last.before) = "TurnPlayerOne" =>
                state(board) \in {"TurnPlayerTwo"} \cup Terminal
        /\ state(last.before) = "TurnPlayerTwo" =>
                state(board) \in {"TurnPlayerOne"} \cup Terminal

\* C14 witness: player two made the sixth move and it is player one's turn.
TurnBackToPlayerOne ==
    /\ Applied
    /\ applied = 6
    /\ state(last.before) = "TurnPlayerTwo"
    /\ state(board) = "TurnPlayerOne"

\* C15: in every state reached by play_move calls at most one player has a
\* complete line.
AtMostOneWinner ==
    ~(HasLine(board, "PlayerOne") /\ HasLine(board, "PlayerTwo"))

\* C15 witness: player two has a line and a further play_move on an Empty
\* cell was rejected.
WinnerStopsTheGame ==
    /\ HasLine(board, "PlayerTwo")
    /\ last.result = "finished"
    /\ IsEmpty(board, last.mov)

\* C16: player one's stones minus player two's stones is 0 or 1, and 0
\* exactly when the total count is even; so the parity of the count tells
\* who placed the last stone.
StoneDifference ==
    LET d == StonesOf(board, "PlayerOne") - StonesOf(board, "PlayerTwo")
    IN  /\ d \in {0, 1}
        /\ d = 0 <=> stones(board) % 2 = 0
        /\ Applied => (PlayerOneHolds(board, last.mov) <=> stones(board) % 2 = 1)
        /\ Applied => (PlayerTwoHolds(board, last.mov) <=> stones(board) % 2 = 0)

\* C16 witness: seven stones, four of player one and three of player two.
FourAgainstThree ==
    /\ Applied
    /\ StonesOf(board, "PlayerOne") = 4
    /\ StonesOf(board, "PlayerTwo") = 3

Turns == {"TurnPlayerOne", "TurnPlayerTwo"}

\* C17: a game never gets stuck and ends: in every state where it is a
\* player's turn legal_moves() is not empty, every state with nine stones is
\* terminal, no more than nine play_move calls succeed, and a caller that
\* keeps playing legal moves reaches a terminal state.
GameTerminates ==
    /\ [](state(board) \in Turns => legal_moves(board) # <<>>)
    /\ [](stones(board) = 9 => state(board) \in Terminal)
    /\ [](applied <= 9)
    /\ [](state(board) \in Turns => applied < 9)
    /\ <>(state(board) \in Terminal)

\* C17 witness: the ninth play_move succeeded and ended the game in a Draw.
NinthMoveDraws ==
    /\ Applied
    /\ applied = 9
    /\ state(last.before) = "TurnPlayerOne"
    /\ state(board) = "Draw"

\* C18: when it is a player's turn, play_move returns normally for every
\* position legal_moves() yields; a play_move call panics only when the cell
\* is occupied or the state is terminal.
LegalMovesAccepted ==
    /\ state(board) \in Turns =>
            \A i \in 1 .. Len(legal_moves(board)) :
                play_move(board, legal_moves(board)[i]).result = "ok"
    /\ last.op = "play_move" =>
            (last.result # "ok" <=>
                (~IsEmpty(last.before, last.mov) \/ state(last.before) \in Terminal))

\* C18 witness: the eighth stone was placed on the last but one Empty cell
\* and the game goes on.
EighthMoveAccepted ==
    /\ Applied
    /\ applied = 8
    /\ last.mov \in Elements(legal_moves(last.before))
    /\ state(board) = "TurnPlayerOne"

\* C19: every CellIndex the public constructors give is in 0..8: From<u8>
\* returns CellIndex(i) for i in 0..8 and panics for every i >= 9, and
\* from_str never yields an index outside 0..8; nothing is wrapped or
\* truncated into range.
CellIndexInRange ==
    /\ made.called =>
            /\ made.ok <=> made.given \in 0 .. 8
            /\ made.ok => (made.index = made.given /\ made.index \in CellIndexes)
    /\ (parsed.called /\ parsed.ok) =>
            /\ parsed.index \in CellIndexes
            /\ parsed.index = source[1] - 48

\* C19 witness: CellIndex::from(255) panicked.
LargestByteRejected ==
    /\ made.called
    /\ made.given = 255
    /\ ~made.ok

====
